---- MODULE Spec2Model ----
(***************************************************************************)
(* Croissant: a crossword solver by reduction to SAT.                      *)
(*                                                                         *)
(* A string is modelled as a sequence of one-character strings, so that    *)
(* splitting on newline, row lengths and per-character validation are      *)
(* computed and not assumed.  A clause is the set of its literals, a       *)
(* literal a nonzero integer; a solver model is the set of its true        *)
(* variables.                                                              *)
(***************************************************************************)
EXTENDS Integers, Sequences, FiniteSets, TLC

(***************************************************************************)
(* Bounds of the model.                                                    *)
(***************************************************************************)
\* Number of letters of the alphabet kept in the model ('A', 'B', ...).
LetterCount == 2
\* Longest word list drawn from the vocabulary.
MaxWords == 2
\* Longest grid string drawn for the construction specification.
MaxGridLen == 4
\* Most models an instance of the solving specification may have: an
\* enumeration of n models reaches in the order of n * 2^n states.
MaxModels == 4

\* The largest number of cells of a grid handed to the decoder alone.
MaxCells == 4

\* The largest number of cells of a grid whose slots are computed.
MaxSlotCells == 6

(***************************************************************************)
(* alphabet.rs                                                             *)
(***************************************************************************)
AllLetters == <<"A", "B", "C", "D", "E", "F", "G", "H", "I", "J", "K", "L", "M",
                "N", "O", "P", "Q", "R", "S", "T", "U", "V", "W", "X", "Y", "Z">>

LETTERS == SubSeq(AllLetters, 1, LetterCount)

letter_at(index) == LETTERS[index + 1]

contains(value) == \E i \in 1..Len(LETTERS) : LETTERS[i] = value

\* Some(index) is the index itself; callers test contains() for None.
index_of(letter) == (CHOOSE i \in 1..Len(LETTERS) : LETTERS[i] = letter) - 1

letter_count == Len(LETTERS)

(***************************************************************************)
(* grid.rs                                                                 *)
(***************************************************************************)
BLOCK == "#"
EMPTY == "."
NL == "\n"

\* str::split('\n'): always at least one piece, the pieces hold no newline.
RECURSIVE split(_)
split(value) ==
    IF \E i \in 1..Len(value) : value[i] = NL
    THEN LET i == CHOOSE k \in 1..Len(value) :
                     value[k] = NL /\ \A j \in 1..(k - 1) : value[j] # NL
         IN <<SubSeq(value, 1, i - 1)>> \o split(SubSeq(value, i + 1, Len(value)))
    ELSE <<value>>

OkRows(rows) ==
    [ok |-> TRUE, rows |-> rows, kind |-> "Ok", row_index |-> 0,
     row_length |-> 0, first_row_length |-> 0, value |-> ""]

ErrInconsistent(row_index, row_length, first_row_length) ==
    [ok |-> FALSE, rows |-> <<>>, kind |-> "Inconsistent number of columns",
     row_index |-> row_index, row_length |-> row_length,
     first_row_length |-> first_row_length, value |-> ""]

ErrInvalid(row_index, value) ==
    [ok |-> FALSE, rows |-> <<>>, kind |-> "Invalid value",
     row_index |-> row_index, row_length |-> 0, first_row_length |-> 0,
     value |-> value]

\* Faulty variant: the block character is left out of the accepted characters.
InvalidChar_no_block(value) == value # EMPTY /\ ~contains(value)

\* The character test of Grid::validate.
InvalidChar(value) == value # EMPTY /\ value # BLOCK /\ ~contains(value)

RECURSIVE validate_from(_, _)

\* Faulty variant: the characters of a row are checked before its length.
validate_from_characters_first(rows, row_index) ==
    IF row_index = Len(rows) THEN OkRows(rows)
    ELSE LET row == rows[row_index + 1]
         IN IF \E k \in 1..Len(row) : InvalidChar(row[k])
            THEN LET k == CHOOSE x \in 1..Len(row) :
                              InvalidChar(row[x])
                              /\ \A y \in 1..(x - 1) : ~InvalidChar(row[y])
                 IN ErrInvalid(row_index, row[k])
            ELSE IF Len(row) # Len(rows[1])
            THEN ErrInconsistent(row_index, Len(row), Len(rows[1]))
            ELSE validate_from(rows, row_index + 1)

\* One iteration of the loop over rows in Grid::validate, then the next ones.
validate_from(rows, row_index) ==
    IF row_index = Len(rows) THEN OkRows(rows)
    ELSE LET row == rows[row_index + 1]
             row_length == Len(row)
             first_row_length == Len(rows[1])
         IN IF row_length # first_row_length
            THEN ErrInconsistent(row_index, row_length, first_row_length)
            ELSE IF \E k \in 1..Len(row) : InvalidChar(row[k])
            THEN LET k == CHOOSE x \in 1..Len(row) :
                              InvalidChar(row[x])
                              /\ \A y \in 1..(x - 1) : ~InvalidChar(row[y])
                 IN ErrInvalid(row_index, row[k])
            ELSE validate_from(rows, row_index + 1)

validate(rows) == IF rows = <<>> THEN OkRows(rows) ELSE validate_from(rows, 0)

\* Grid::from: split on newline, then Grid::new, which returns validate's verdict.
GridFrom(value) == validate(split(value))

row_count(rows) == Len(rows)

column_count(rows) == IF rows = <<>> THEN 0 ELSE Len(rows[1])

grid_letter_at(rows, row, column) == rows[row + 1][column + 1]

(***************************************************************************)
(* slot.rs                                                                 *)
(***************************************************************************)
MIN_LEN == 2

NewSlot(index, start, end, offset, is_down) ==
    [index |-> index, start |-> start, end |-> end, offset |-> offset,
     is_down |-> is_down]

\* Faulty variant: an across slot is built as a down slot.
across_as_down(index, start_column, end_column, row) ==
    NewSlot(index, start_column, end_column, row, TRUE)

across(index, start_column, end_column, row) ==
    NewSlot(index, start_column, end_column, row, FALSE)

down(index, start_row, end_row, column) ==
    NewSlot(index, start_row, end_row, column, TRUE)

slot_len(s) == s.end - s.start

Pos(column, row) == [column |-> column, row |-> row]

\* Slot::positions maps the range 0..len(), not start..end.
positions(s) ==
    [k \in 1..slot_len(s) |->
        IF s.is_down THEN Pos(s.offset, k - 1) ELSE Pos(k - 1, s.offset)]

(***************************************************************************)
(* grid.rs: slots                                                          *)
(***************************************************************************)
\* Faulty variant: the test after the loop is left out, so the run that
\* reaches the end of the row is lost.
RECURSIVE across_scan_without_last(_, _, _, _, _)
across_scan_without_last(rows, row, column, column_start, acc) ==
    IF column = column_count(rows) THEN acc
    ELSE IF grid_letter_at(rows, row, column) = BLOCK
    THEN across_scan_without_last(rows, row, column + 1, column + 1,
                     IF column - column_start >= MIN_LEN
                     THEN Append(acc, across(Len(acc), column_start, column, row))
                     ELSE acc)
    ELSE across_scan_without_last(rows, row, column + 1, column_start, acc)

\* The inner loop of across_slots over the columns of one row, with the
\* trailing test after the loop.
RECURSIVE across_scan(_, _, _, _, _)
across_scan(rows, row, column, column_start, acc) ==
    IF column = column_count(rows)
    THEN IF column_count(rows) - column_start >= MIN_LEN
         THEN Append(acc, across(Len(acc), column_start, column_count(rows), row))
         ELSE acc
    ELSE IF grid_letter_at(rows, row, column) = BLOCK
    THEN across_scan(rows, row, column + 1, column + 1,
                     IF column - column_start >= MIN_LEN
                     THEN Append(acc, across(Len(acc), column_start, column, row))
                     ELSE acc)
    ELSE across_scan(rows, row, column + 1, column_start, acc)

RECURSIVE across_rows(_, _, _)
across_rows(rows, row, acc) ==
    IF row = row_count(rows) THEN acc
    ELSE across_rows(rows, row + 1, across_scan(rows, row, 0, 0, acc))

across_slots(rows) == across_rows(rows, 0, <<>>)

RECURSIVE down_scan(_, _, _, _, _, _)
down_scan(rows, start_index, column, row, row_start, acc) ==
    IF row = row_count(rows)
    THEN IF row_count(rows) - row_start >= MIN_LEN
         THEN Append(acc, down(start_index + Len(acc), row_start, row_count(rows), column))
         ELSE acc
    ELSE IF grid_letter_at(rows, row, column) = BLOCK
    THEN down_scan(rows, start_index, column, row + 1, row + 1,
                   IF row - row_start >= MIN_LEN
                   THEN Append(acc, down(start_index + Len(acc), row_start, row, column))
                   ELSE acc)
    ELSE down_scan(rows, start_index, column, row + 1, row_start, acc)

RECURSIVE down_columns(_, _, _, _)
down_columns(rows, start_index, column, acc) ==
    IF column = column_count(rows) THEN acc
    ELSE down_columns(rows, start_index, column + 1,
                      down_scan(rows, start_index, column, 0, 0, acc))

down_slots(rows, start_index) == down_columns(rows, start_index, 0, <<>>)

\* Faulty variant: the down slots are computed and listed first.
slots_down_first(rows) ==
    LET d == down_slots(rows, 0) IN d \o across_slots(rows)

slots(rows) ==
    LET a == across_slots(rows) IN a \o down_slots(rows, Len(a))

slot_count(rows) == Len(slots(rows))

(***************************************************************************)
(* variables.rs                                                            *)
(***************************************************************************)
CELL_VALUE_COUNT == letter_count + 1

BLOCK_INDEX == letter_count

representing_cell_count(rows) == column_count(rows) * row_count(rows) * CELL_VALUE_COUNT

representing_slot_count(rows, word_count) == slot_count(rows) * word_count

count(rows, word_count) ==
    representing_cell_count(rows) + representing_slot_count(rows, word_count)

cell(rows, row, column, value) ==
    row * column_count(rows) * CELL_VALUE_COUNT + column * CELL_VALUE_COUNT + value + 1

representing_cells(rows) == [k \in 1..representing_cell_count(rows) |-> k]

\* Faulty variant: the slot variables are not put after the cell variables.
slot_from_one(rows, word_count, slot_index, word_index) ==
    slot_index * word_count + word_index + 1

slot(rows, word_count, slot_index, word_index) ==
    representing_cell_count(rows) + slot_index * word_count + word_index + 1

(***************************************************************************)
(* Sequence helpers.                                                       *)
(***************************************************************************)
RECURSIVE Flatten(_)
Flatten(seqs) == IF seqs = <<>> THEN <<>> ELSE Head(seqs) \o Flatten(Tail(seqs))

Range(f) == {f[x] : x \in DOMAIN f}

(***************************************************************************)
(* A call received by a SolverConfigurator.                                *)
(***************************************************************************)
CallAtMostOne(literals) ==
    [op |-> "add_at_most_one", literal |-> 0, literals |-> literals]

CallExactlyOne(literals) ==
    [op |-> "add_exactly_one", literal |-> 0, literals |-> literals]

CallAnd(literal, conjunction) ==
    [op |-> "add_and", literal |-> literal, literals |-> conjunction]

CallClause(literals) ==
    [op |-> "add_clause", literal |-> 0, literals |-> literals]

\* The two hints and build(), as calls.
CallAllocateVariables(variables_count) ==
    [op |-> "allocate_variables", variables_count |-> variables_count]

CallSetRelevantVariables(relevant) ==
    [op |-> "set_relevant_variables", relevant_variables |-> relevant]

CallBuild == [op |-> "build"]

(***************************************************************************)
(* constraints.rs                                                          *)
(***************************************************************************)
\* The 27-literal buffer of one cell: the letters in order, then the block.
cell_literals_buffer(rows, row, column) ==
    [k \in 1..letter_count |-> cell(rows, row, column, k - 1)]
        \o <<cell(rows, row, column, BLOCK_INDEX)>>

\* Faulty variant: the block variable is left out of the buffer.
add_one_letter_per_cell_clauses_to(rows) ==
    Flatten([r \in 1..row_count(rows) |->
        [c \in 1..column_count(rows) |->
            CallExactlyOne([k \in 1..letter_count |-> cell(rows, r - 1, c - 1, k - 1)])]])

add_one_letter_or_block_per_cell_clauses_to(rows) ==
    Flatten([r \in 1..row_count(rows) |->
        [c \in 1..column_count(rows) |->
            CallExactlyOne(cell_literals_buffer(rows, r - 1, c - 1))]])

\* zip(slot.positions(), word.chars()): one cell literal per pair.
fill_cell_literals_conjunction(rows, s, word) ==
    LET slot_positions == positions(s)
        n == IF Len(word) < Len(slot_positions) THEN Len(word) ELSE Len(slot_positions)
    IN [k \in 1..n |->
           cell(rows, slot_positions[k].row, slot_positions[k].column, index_of(word[k]))]

\* The indices (0-based) of the words whose length is the slot's, in order.
RECURSIVE matching_word_indices(_, _, _)
matching_word_indices(words, s, word_index) ==
    IF word_index = Len(words) THEN <<>>
    ELSE (IF Len(words[word_index + 1]) = slot_len(s) THEN <<word_index>> ELSE <<>>)
             \o matching_word_indices(words, s, word_index + 1)

\* Faulty variant: the add_exactly_one over the slot literals is left out.
slot_calls_without_exactly_one(rows, words, s) ==
    LET matching == matching_word_indices(words, s, 0)
    IN [k \in 1..Len(matching) |->
           CallAnd(slot(rows, Len(words), s.index, matching[k]),
                   fill_cell_literals_conjunction(rows, s, words[matching[k] + 1]))]

\* The body of the loop over slots: one add_and per matching word, then the
\* add_exactly_one over the slot literals gathered.
slot_calls(rows, words, s) ==
    LET matching == matching_word_indices(words, s, 0)
        slot_literals_buffer ==
            [k \in 1..Len(matching) |-> slot(rows, Len(words), s.index, matching[k])]
    IN [k \in 1..Len(matching) |->
           CallAnd(slot_literals_buffer[k],
                   fill_cell_literals_conjunction(rows, s, words[matching[k] + 1]))]
       \o <<CallExactlyOne(slot_literals_buffer)>>

add_one_word_per_slot_clauses_to(rows, words) ==
    LET all == slots(rows)
    IN Flatten([k \in 1..Len(all) |-> slot_calls(rows, words, all[k])])

\* index_of(letter).expect("Unsupported character ..."): reached only for a
\* word whose length is some slot's.
emission_panics(rows, words) ==
    \E s \in Range(slots(rows)) : \E w \in 1..Len(words) :
        /\ Len(words[w]) = slot_len(s)
        /\ \E k \in 1..Len(words[w]) : ~contains(words[w][k])

\* Faulty variant: the literal of an empty cell loses its negation.
input_literal_unsigned(rows, row, column) ==
    LET prefilled_letter == grid_letter_at(rows, row, column)
    IN IF prefilled_letter = EMPTY \/ prefilled_letter = BLOCK
       THEN cell(rows, row, column, BLOCK_INDEX)
       ELSE cell(rows, row, column, index_of(prefilled_letter))

\* The literal of the unit clause of one cell.
input_literal(rows, row, column) ==
    LET prefilled_letter == grid_letter_at(rows, row, column)
    IN IF prefilled_letter = EMPTY THEN 0 - cell(rows, row, column, BLOCK_INDEX)
       ELSE IF prefilled_letter = BLOCK THEN cell(rows, row, column, BLOCK_INDEX)
       ELSE cell(rows, row, column, index_of(prefilled_letter))

\* Faulty variant: the literals buffer is never cleared.
add_input_grid_constraints_without_clear(rows) ==
    LET literals ==
            Flatten([r \in 1..row_count(rows) |->
                [c \in 1..column_count(rows) |-> input_literal(rows, r - 1, c - 1)]])
    IN [k \in 1..Len(literals) |-> CallClause(SubSeq(literals, 1, k))]

add_input_grid_constraints_are_satisfied_clauses_to(rows) ==
    Flatten([r \in 1..row_count(rows) |->
        [c \in 1..column_count(rows) |->
            CallClause(<<input_literal(rows, r - 1, c - 1)>>)]])

\* Faulty variant: the input grid clauses are sent first, before the hints.
add_clauses_to_input_first(rows, words) ==
    add_input_grid_constraints_are_satisfied_clauses_to(rows)
        \o <<CallAllocateVariables(count(rows, Len(words))),
              CallSetRelevantVariables(representing_cells(rows))>>
        \o add_one_letter_or_block_per_cell_clauses_to(rows)
        \o add_one_word_per_slot_clauses_to(rows, words)

\* Crossword::add_clauses_to: the two hints, then C1, then C2, then C3.
add_clauses_to(rows, words) ==
    <<CallAllocateVariables(count(rows, Len(words))),
      CallSetRelevantVariables(representing_cells(rows))>>
        \o add_one_letter_or_block_per_cell_clauses_to(rows)
        \o add_one_word_per_slot_clauses_to(rows, words)
        \o add_input_grid_constraints_are_satisfied_clauses_to(rows)

\* Faulty variant: the solver is built before it is configured.
solve_with_solver_built_by_first(rows, words) ==
    <<CallBuild>> \o add_clauses_to(rows, words)

\* Crossword::solve_with_solver_built_by: what the builder receives.
solve_with_solver_built_by(rows, words) ==
    add_clauses_to(rows, words) \o <<CallBuild>>

\* Crossword::solve_with: what the configurable solver receives.
solve_with(rows, words) == add_clauses_to(rows, words)

\* Faulty variant: only the pairs of neighbours are excluded.
add_at_most_one_adjacent(literals) ==
    [i \in 1..(Len(literals) - 1) |-> <<0 - literals[i], 0 - literals[i + 1]>>]

(***************************************************************************)
(* croissant-solver: default decompositions of SolverConfigurator.         *)
(***************************************************************************)
add_at_most_one(literals) ==
    Flatten([i \in 1..Len(literals) |->
        [d \in 1..(Len(literals) - i) |-> <<0 - literals[i], 0 - literals[i + d]>>]])

\* Faulty variant: only the at-least-one clause is added.
add_at_least_one(literals) == <<literals>>

add_exactly_one(literals) == <<literals>> \o add_at_most_one(literals)

\* Faulty variant: the clause from the conjunction to the literal is missing.
add_and_one_way(literal, conjunction) ==
    [k \in 1..Len(conjunction) |-> <<0 - literal, conjunction[k]>>]

add_and(literal, conjunction) ==
    [k \in 1..Len(conjunction) |-> <<0 - literal, conjunction[k]>>]
        \o << [k \in 1..Len(conjunction) |-> 0 - conjunction[k]] \o <<literal>> >>

\* The clauses one call adds through add_clause.
call_clauses(call) ==
    IF call.op = "add_exactly_one" THEN add_exactly_one(call.literals)
    ELSE IF call.op = "add_at_most_one" THEN add_at_most_one(call.literals)
    ELSE IF call.op = "add_and" THEN add_and(call.literal, call.literals)
    ELSE IF call.op = "add_clause" THEN <<call.literals>>
    ELSE <<>>

\* The clauses the calls add through add_clause, in order.
added_clauses(calls) ==
    Flatten([k \in 1..Len(calls) |-> call_clauses(calls[k])])

\* The solver's clause database after the calls: a set of clauses, each the
\* set of its literals.
clause_database(calls) ==
    {Range(cl) : cl \in UNION {Range(call_clauses(calls[k])) : k \in 1..Len(calls)}}

(***************************************************************************)
(* variables.rs: the decoder.                                              *)
(***************************************************************************)
PANIC == <<"panic">>

\* String::insert(idx, ch); an index past the end panics.
insert(out, idx, ch) ==
    IF out = PANIC \/ idx > Len(out) THEN PANIC
    ELSE SubSeq(out, 1, idx) \o <<ch>> \o SubSeq(out, idx + 1, Len(out))

has_positive_value(rows, model, row, column) ==
    \E value \in 0..(CELL_VALUE_COUNT - 1) : model[cell(rows, row, column, value)] > 0

\* char::from_u32: the character of a code point; '#' is U+0023 and every code
\* point below U+0020 is a control character.
char_from_u32(code) == IF code = 35 THEN BLOCK ELSE "control character"

\* Faulty variant: the block index is cast to a character.
cell_character_cast(rows, model, row, column) ==
    LET value == CHOOSE v \in 0..(CELL_VALUE_COUNT - 1) :
                     /\ model[cell(rows, row, column, v)] > 0
                     /\ \A u \in 0..(v - 1) : ~(model[cell(rows, row, column, u)] > 0)
    IN IF value = BLOCK_INDEX THEN char_from_u32(BLOCK_INDEX) ELSE letter_at(value)

\* The first value of the scan 0..CELL_VALUE_COUNT whose variable is positive
\* (the scan breaks there), as a character.
cell_character(rows, model, row, column) ==
    LET value == CHOOSE v \in 0..(CELL_VALUE_COUNT - 1) :
                     /\ model[cell(rows, row, column, v)] > 0
                     /\ \A u \in 0..(v - 1) : ~(model[cell(rows, row, column, u)] > 0)
    IN IF value = BLOCK_INDEX THEN BLOCK ELSE letter_at(value)

RECURSIVE back_to_domain_from(_, _, _, _, _)
back_to_domain_from(rows, model, row, column, out) ==
    LET cc == column_count(rows)
    IN IF row = row_count(rows) THEN out
       ELSE IF column = cc
       THEN back_to_domain_from(rows, model, row + 1, 0,
                IF row < row_count(rows) - 1
                THEN insert(out, row * (cc + 1) + cc, NL)
                ELSE out)
       ELSE back_to_domain_from(rows, model, row, column + 1,
                IF has_positive_value(rows, model, row, column)
                THEN insert(out, row * (cc + 1) + column,
                            cell_character(rows, model, row, column))
                ELSE out)

back_to_domain(rows, model) == back_to_domain_from(rows, model, 0, 0, <<>>)

\* The decoder of src/src/variables.rs: the block index is cast to a
\* character, the scan over the values does not break, the insertion index is
\* row * row_count + column and no newline is inserted.
src_character(value) ==
    IF value = BLOCK_INDEX THEN char_from_u32(BLOCK_INDEX) ELSE letter_at(value)

RECURSIVE src_back_to_domain_from(_, _, _, _, _, _)
src_back_to_domain_from(rows, model, row, column, value, out) ==
    IF row = row_count(rows) THEN out
    ELSE IF column = column_count(rows)
    THEN src_back_to_domain_from(rows, model, row + 1, 0, 0, out)
    ELSE IF value = CELL_VALUE_COUNT
    THEN src_back_to_domain_from(rows, model, row, column + 1, 0, out)
    ELSE src_back_to_domain_from(rows, model, row, column, value + 1,
             IF model[cell(rows, row, column, value)] > 0
             THEN insert(out, row * row_count(rows) + column, src_character(value))
             ELSE out)

src_back_to_domain(rows, model) == src_back_to_domain_from(rows, model, 0, 0, 0, <<>>)

(***************************************************************************)
(* The SAT engine behind an adapter: solve() answers SAT exactly when some *)
(* assignment satisfies every clause, and then holds any one of them.      *)
(***************************************************************************)
Abs(x) == IF x < 0 THEN 0 - x ELSE x

SetMax(S) == IF S = {} THEN 0 ELSE CHOOSE x \in S : \A y \in S : y <= x

\* The largest variable id of the clause database.
NumVars(db) == SetMax({Abs(l) : l \in UNION db})

\* The clauses left once literal l is made true.
Assign(db, l) == {c \ {0 - l} : c \in {d \in db : l \notin d}}

\* Every assignment of the variables v..n satisfying db, as its set of true
\* variables.
RECURSIVE Models(_, _, _)
Models(db, v, n) ==
    IF {} \in db THEN {}
    ELSE IF v > n THEN {{}}
    ELSE {m \cup {v} : m \in Models(Assign(db, v), v + 1, n)}
             \cup Models(Assign(db, 0 - v), v + 1, n)

\* An assignment, given as its set of true variables, satisfies a clause.
Satisfies(m, clause) ==
    \E l \in clause : (l > 0 /\ l \in m) \/ (l < 0 /\ (0 - l) \notin m)

(***************************************************************************)
(* Backend adapters.                                                       *)
(***************************************************************************)
Backends == {"cadical", "logicng", "splr"}

\* LogicngSolverBuilder and SplrSolverBuilder are SolverBuilders, CadicalSolver
\* is a ConfigurableSolver.
is_builder(b) == b \in {"logicng", "splr"}

max_relevant_variable(relevant) == SetMax(Range(relevant))

\* CadicalSolver::model: the state of the variables 1..max_relevant_variable.
cadical_model(m, relevant) ==
    [variable \in 1..max_relevant_variable(relevant) |->
        IF variable \in m THEN 1 ELSE 0 - 1]

\* LogicngSolver::solve: the literals of the model over the relevant variables.
logicng_literals(m, relevant) ==
    [k \in 1..Len(relevant) |->
        IF relevant[k] \in m THEN relevant[k] ELSE 0 - relevant[k]]

\* LogicngSolver::variable_states_from: a vector of max_relevant_variable() + 1
\* zeroes, where max_relevant_variable() is a 0-based index, then 1 or -1 at
\* the index of every literal of the model.
logicng_variable_states(literals, relevant) ==
    LET max_index == IF relevant = <<>> THEN 0 ELSE max_relevant_variable(relevant) - 1
    IN [i \in 1..(max_index + 1) |->
           IF i \in Range(literals) THEN 1
           ELSE IF (0 - i) \in Range(literals) THEN 0 - 1
           ELSE 0]

\* splr's iterator: the whole model, one signed literal per variable.
splr_model(m, n) == [variable \in 1..n |-> IF variable \in m THEN variable ELSE 0 - variable]

signum(x) == IF x > 0 THEN 1 ELSE IF x < 0 THEN 0 - 1 ELSE 0

\* CadicalSolver::refute_last_solution: nothing for an empty last solution,
\* else the clause of -signum(value) * (index + 1).
cadical_refutation(last) ==
    IF last.values = <<>> THEN {}
    ELSE {{(0 - signum(last.values[k])) * k : k \in 1..Len(last.values)}}

\* LogicngSolver::refute_previous_solution: nothing for no literal, else the
\* clause of the negated literals.
logicng_refutation(last) ==
    IF last.values = <<>> THEN {}
    ELSE {{0 - last.values[k] : k \in 1..Len(last.values)}}

\* splr's iterator: the negation of the whole previous model, when there is one.
splr_refutation(last) ==
    IF ~last.present THEN {}
    ELSE {{0 - last.values[k] : k \in 1..Len(last.values)}}

\* The clauses a pull adds before it solves.
refutation(b, last) ==
    IF b = "cadical" THEN cadical_refutation(last)
    ELSE IF b = "logicng" THEN logicng_refutation(last)
    ELSE splr_refutation(last)

\* Faulty variant: the logicng adapter does not set its flag.
has_flag_cadical_only(b) == b = "cadical"

\* Whether the adapter keeps an exhaustion flag (no_more_solution).
has_flag(b) == b \in {"cadical", "logicng"}

\* The number of variables the engine assigns.
engine_vars(b, database, relevant) ==
    IF b = "splr" THEN NumVars(database)
    ELSE SetMax({NumVars(database), max_relevant_variable(relevant)})

\* What the adapter records of a model m of the engine.
recorded(b, m, database, relevant) ==
    IF b = "cadical" THEN [present |-> FALSE, values |-> cadical_model(m, relevant)]
    ELSE IF b = "logicng" THEN [present |-> FALSE, values |-> logicng_literals(m, relevant)]
    ELSE [present |-> TRUE, values |-> splr_model(m, NumVars(database))]

\* The vector next() returns for a model m of the engine.
returned(b, m, database, relevant) ==
    IF b = "cadical" THEN cadical_model(m, relevant)
    ELSE IF b = "logicng"
    THEN logicng_variable_states(logicng_literals(m, relevant), relevant)
    ELSE splr_model(m, NumVars(database))

(***************************************************************************)
(* Inputs.                                                                 *)
(***************************************************************************)
\* Grid strings of the solving specification: the zero-cell grid, one slot,
\* a prefilled slot, two slots separated by a block (the second one starting
\* at offsets 2 and 3), down slots, a 2x2 grid, cells outside any slot and a
\* malformed grid.
GridInputs ==
    { <<>>,
      <<".", ".">>,
      <<"A", ".">>,
      <<".", "#">>,
      <<".", "#", ".", ".">>,
      <<".", ".", "#", "A", ".">>,
      <<".", NL, ".">>,
      <<"#", NL, ".", NL, "B">>,
      <<".", ".", NL, ".", ".">>,
      <<".", "_">> }

\* Words of the solving specification, of lengths 2 and 3.
Vocabulary == { <<"A", "A">>, <<"A", "B">>, <<"B", "A">>, <<"A", "B", "A">> }

RECURSIVE SeqsUpTo(_, _)
SeqsUpTo(S, n) ==
    IF n = 0 THEN {<<>>}
    ELSE LET shorter == SeqsUpTo(S, n - 1)
         IN shorter \cup {Append(q, x) : q \in shorter, x \in S}

WordLists == SeqsUpTo(Vocabulary, MaxWords)

(***************************************************************************)
(* State.                                                                  *)
(***************************************************************************)
VARIABLES
    input_grid,          \* the grid string given to Crossword::try_from
    words,               \* the word list given to Crossword::try_from
    backend,             \* the adapter the crossword is solved with
    pc,                  \* "start", "rejected", "constructed", "panicked", "idle", "decode"
    crossword,           \* the Result of Crossword::try_from
    calls,               \* the calls received by the configurator or builder
    clauses,             \* the clauses received through add_clause, in order
    relevant_variables,  \* the adapter's relevant_variables
    database,            \* the engine's clause database
    satisfying,          \* the assignments satisfying the clause database
    last_solution,       \* the adapter's last solution (present: splr's Option)
    no_more_solution,    \* the adapter's exhaustion flag
    solution,            \* what Solver::next returned to CrosswordSolutions::next
    ret,                 \* what CrosswordSolutions::next returned last
    yielded,             \* the grids yielded so far
    repeated,            \* whether some grid was yielded twice
    solved               \* whether the last Solver::next invoked solve()

vars == <<input_grid, words, backend, pc, crossword, calls, clauses, relevant_variables,
          database, satisfying, last_solution, no_more_solution, solution, ret, yielded,
          repeated, solved>>

NoResult == [kind |-> "NotPulled", value |-> <<>>]
None == [kind |-> "None", value |-> <<>>]
Some(value) == [kind |-> "Some", value |-> value]

NoCrossword == [ok |-> FALSE, rows |-> <<>>, kind |-> "NotBuilt", row_index |-> 0,
                row_length |-> 0, first_row_length |-> 0, value |-> ""]

InitWith(grids, lists, backends) ==
    /\ input_grid \in grids
    /\ words \in lists
    /\ backend \in backends
    /\ pc = "start"
    /\ crossword = NoCrossword
    /\ calls = <<>>
    /\ clauses = <<>>
    /\ relevant_variables = <<>>
    /\ database = {}
    /\ satisfying = {}
    /\ last_solution = [present |-> FALSE, values |-> <<>>]
    /\ no_more_solution = FALSE
    /\ solution = NoResult
    /\ ret = NoResult
    /\ yielded = {}
    /\ repeated = FALSE
    /\ solved = FALSE

\* The number of different models the adapter can record for an instance.
model_count(value, word_list, b) ==
    LET rows == GridFrom(value).rows
        db == clause_database(add_clauses_to(rows, word_list))
        relevant == representing_cells(rows)
    IN Cardinality({recorded(b, m, db, relevant) :
                       m \in Models(db, 1, engine_vars(b, db, relevant))})

\* The instances kept: the malformed grids, and the ones of at most MaxModels
\* models.
Admissible ==
    \/ ~GridFrom(input_grid).ok
    \/ emission_panics(GridFrom(input_grid).rows, words)
    \/ model_count(input_grid, words, backend) <= MaxModels

Init == InitWith(GridInputs, WordLists, Backends) /\ Admissible

\* Crossword::try_from: the grid's error is returned as is, the word list is
\* only stored.
try_from(value, word_list) == GridFrom(value)

TryFrom ==
    /\ pc = "start"
    /\ crossword' = try_from(input_grid, words)
    /\ pc' = IF crossword'.ok THEN "constructed" ELSE "rejected"
    /\ UNCHANGED <<input_grid, words, backend, calls, clauses, relevant_variables, database,
                   satisfying, last_solution, no_more_solution, solution, ret,
                   yielded, repeated, solved>>

\* Crossword::solve_with / solve_with_solver_built_by: the two hints, the three
\* clause families and, for a builder, build().
SolveWith ==
    /\ pc = "constructed"
    /\ IF emission_panics(crossword.rows, words)
       THEN /\ pc' = "panicked"
            /\ UNCHANGED <<calls, clauses, relevant_variables, database, satisfying>>
       ELSE /\ pc' = "idle"
            /\ relevant_variables' = representing_cells(crossword.rows)
            /\ calls' = IF is_builder(backend)
                        THEN solve_with_solver_built_by(crossword.rows, words)
                        ELSE solve_with(crossword.rows, words)
            /\ clauses' = added_clauses(calls')
            /\ database' = clause_database(calls')
            /\ satisfying' = Models(database', 1,
                                    engine_vars(backend, database', relevant_variables'))
    /\ UNCHANGED <<input_grid, words, backend, crossword, last_solution,
                   no_more_solution, solution, ret, yielded, repeated, solved>>

\* Solver::next of the adapter.
SolverNext ==
    /\ pc = "idle"
    /\ pc' = "decode"
    /\ IF has_flag(backend) /\ no_more_solution
       THEN /\ solution' = None
            /\ solved' = FALSE
            /\ UNCHANGED <<database, satisfying, last_solution, no_more_solution>>
       ELSE LET added == refutation(backend, last_solution)
                refuted == database \cup added
                cleared == IF backend = "cadical" THEN last_solution
                           ELSE [present |-> FALSE, values |-> <<>>]
                found == {m \in satisfying : \A clause \in added : Satisfies(m, clause)}
            IN /\ database' = refuted
               /\ satisfying' = found
               /\ solved' = TRUE
               /\ \/ /\ found = {}
                     /\ no_more_solution' = has_flag(backend)
                     /\ last_solution' = cleared
                     /\ solution' = None
                  \/ \E m \in found :
                        /\ no_more_solution' = FALSE
                        /\ last_solution' = recorded(backend, m, refuted, relevant_variables)
                        /\ solution' = Some(returned(backend, m, refuted, relevant_variables))
    /\ UNCHANGED <<input_grid, words, backend, crossword, calls, clauses, relevant_variables,
                   ret, yielded, repeated>>

\* CrosswordSolutions::next: the model, if any, goes through back_to_domain.
Decode ==
    /\ pc = "decode"
    /\ pc' = "idle"
    /\ IF solution.kind = "Some"
       THEN LET grid == back_to_domain(crossword.rows, solution.value)
            IN /\ ret' = Some(grid)
               /\ yielded' = yielded \cup {grid}
               /\ repeated' = (repeated \/ grid \in yielded)
       ELSE /\ ret' = None
            /\ UNCHANGED <<yielded, repeated>>
    /\ UNCHANGED <<input_grid, words, backend, crossword, calls, clauses, relevant_variables,
                   database, satisfying, last_solution, no_more_solution, solution,
                   solved>>

Next == TryFrom \/ SolveWith \/ SolverNext \/ Decode

Spec == Init /\ [][Next]_vars

\* The caller keeps pulling: Solver::next and the decoding that follows it
\* are always taken when they can be.
FairSpec == Spec /\ WF_vars(SolverNext) /\ WF_vars(Decode)

(***************************************************************************)
(* The construction specification: Crossword::try_from on every grid       *)
(* string of at most MaxGridLen characters.                                *)
(***************************************************************************)
GridChars == {EMPTY, BLOCK, NL, "A", "_"}

GridStrings == SeqsUpTo(GridChars, MaxGridLen)

ConstructionWordLists == { <<>>, << <<"A", "A">> >>, << <<"A", "_">> >> }

InitGrid == InitWith(GridStrings, ConstructionWordLists, {"cadical"})

NextGrid == TryFrom

SpecGrid == InitGrid /\ [][NextGrid]_vars

(***************************************************************************)
(* The decoding specification: both decoders on every model that has       *)
(* exactly one positive cell variable per cell, for every grid of at most  *)
(* MaxCells cells.                                                         *)
(***************************************************************************)
\* The grid of R rows of C empty cells, as a string.
EmptyGrid(R, C) ==
    [i \in 1..(R * (C + 1) - 1) |-> IF i % (C + 1) = 0 THEN NL ELSE EMPTY]

DecodeGrids ==
    {EmptyGrid(1, 0)} \cup
    {EmptyGrid(R, C) : <<R, C>> \in {t \in (1..MaxCells) \X (1..MaxCells) :
                                       t[1] * t[2] <= MaxCells}}

\* The vectors a solver can return for the cells of a grid: one state per cell
\* variable, exactly one of them positive in every cell.
OnePositiveModels(rows) ==
    LET cells == (0..(row_count(rows) - 1)) \X (0..(column_count(rows) - 1))
    IN {[variable \in 1..representing_cell_count(rows) |->
            IF \E t \in cells : variable = cell(rows, t[1], t[2], f[t]) THEN 1 ELSE 0 - 1] :
        f \in [cells -> 0..(CELL_VALUE_COUNT - 1)]}

InitDecode ==
    /\ input_grid \in DecodeGrids
    /\ words = <<>>
    /\ backend = "cadical"
    /\ pc \in {"decode", "src_decode"}
    /\ crossword = try_from(input_grid, words)
    /\ calls = <<>>
    /\ clauses = <<>>
    /\ relevant_variables = representing_cells(crossword.rows)
    /\ database = {}
    /\ satisfying = {}
    /\ last_solution = [present |-> FALSE, values |-> <<>>]
    /\ no_more_solution = FALSE
    /\ solution \in {Some(model) : model \in OnePositiveModels(crossword.rows)}
    /\ ret = NoResult
    /\ yielded = {}
    /\ repeated = FALSE
    /\ solved = TRUE

Panicked == [kind |-> "Panic", value |-> <<>>]

\* CrosswordSolutions::next of src/src/crossword.rs: the model goes through
\* the decoder of src/src/variables.rs.
SrcDecode ==
    /\ pc = "src_decode"
    /\ pc' = "src_idle"
    /\ LET grid == src_back_to_domain(crossword.rows, solution.value)
       IN ret' = IF grid = PANIC THEN Panicked ELSE Some(grid)
    /\ UNCHANGED <<input_grid, words, backend, crossword, calls, clauses, relevant_variables,
                   database, satisfying, last_solution, no_more_solution, solution,
                   yielded, repeated, solved>>

NextDecode == Decode \/ SrcDecode

SpecDecode == InitDecode /\ [][NextDecode]_vars

(***************************************************************************)
(* The slot specification: every grid of at most MaxSlotCells cells, each   *)
(* cell empty, a block or a letter, is parsed and handed to a solver.       *)
(***************************************************************************)
SlotGridChars == {EMPTY, BLOCK, "A"}

\* The grid of R rows of C cells holding the given characters, as a string.
GridOf(R, C, f) ==
    [i \in 1..(R * (C + 1) - 1) |->
        IF i % (C + 1) = 0 THEN NL
        ELSE f[((i - 1) \div (C + 1)) * C + ((i - 1) % (C + 1)) + 1]]

SlotGrids ==
    {EmptyGrid(1, 0)} \cup
    UNION {{GridOf(t[1], t[2], f) : f \in [1..(t[1] * t[2]) -> SlotGridChars]} :
           t \in {u \in (1..MaxSlotCells) \X (1..MaxSlotCells) :
                     u[1] * u[2] <= MaxSlotCells}}

InitSlots == InitWith(SlotGrids, {<<>>}, {"cadical"})

NextSlots == TryFrom \/ SolveWith

SpecSlots == InitSlots /\ [][NextSlots]_vars

(***************************************************************************)
(* What the properties speak of.                                           *)
(***************************************************************************)
\* The parsed input grid.
Rows == crossword.rows

IsLetter(ch) == ch \in Range(LETTERS)

\* The cells of a slot: the offsets start..end along its axis.
SlotCells(s) ==
    [k \in 1..slot_len(s) |->
        IF s.is_down THEN [row |-> s.start + k - 1, column |-> s.offset]
        ELSE [row |-> s.offset, column |-> s.start + k - 1]]

\* A grid string has the shape of the input grid string.
SameShape(g) ==
    /\ Len(g) = Len(input_grid)
    /\ \A i \in 1..Len(g) : (g[i] = NL) <=> (input_grid[i] = NL)

\* The character of a grid string of the input's shape at a cell.
CharAt(g, row, column) == g[row * (column_count(Rows) + 1) + column + 1]

\* The word a grid string spells in the given cells.
Spelled(g, cells) == [k \in 1..Len(cells) |-> CharAt(g, cells[k].row, cells[k].column)]

InWordList(w) == \E k \in 1..Len(words) : words[k] = w

\* A grid string keeps the prefilled letters and blocks of the input and puts
\* a letter in every '.' cell.
RespectsInput(g) ==
    /\ SameShape(g)
    /\ \A i \in 1..Len(g) :
          /\ IsLetter(input_grid[i]) => g[i] = input_grid[i]
          /\ input_grid[i] = EMPTY => IsLetter(g[i])
          /\ input_grid[i] = BLOCK => g[i] = BLOCK

\* Every slot of the input grid spells a word of the list.
SlotsSpellWords(g) ==
    \A s \in Range(slots(Rows)) : InWordList(Spelled(g, SlotCells(s)))

\* Every valid filling of the input grid.
ValidFillings ==
    LET dots == {i \in 1..Len(input_grid) : input_grid[i] = EMPTY}
        candidates == {[i \in 1..Len(input_grid) |->
                           IF i \in dots THEN f[i] ELSE input_grid[i]] :
                       f \in [dots -> Range(LETTERS)]}
    IN {g \in candidates : SlotsSpellWords(g)}

Solving == pc \in {"idle", "decode"}

(***************************************************************************)
(* Properties.                                                             *)
(***************************************************************************)
\* C1: in every grid yielded, every slot of the input grid (its cells are the
\* offsets start..end along its axis) spells a word of the word list of the
\* slot's length.
C1_SlotsSpellWords ==
    Solving => \A g \in yielded : SameShape(g) /\ SlotsSpellWords(g)

\* C2: in every grid yielded, a prefilled letter is kept, a '.' cell holds a
\* letter and never '#', a '#' cell holds '#'.
C2_InputPreserved ==
    Solving => \A g \in yielded : RespectsInput(g)

\* C2 witness: a grid was yielded for an input holding a letter, a '.' and a '#'.
C2_Witness ==
    /\ Solving
    /\ yielded # {}
    /\ \E i, j, k \in 1..Len(input_grid) :
          IsLetter(input_grid[i]) /\ input_grid[j] = EMPTY /\ input_grid[k] = BLOCK

\* C3: no two grids yielded during one enumeration are equal.
C3_NoRepeatedGrid == ~repeated

\* C4: repeatedly pulling the solution iterator eventually returns
\* end-of-stream.
C4_Terminates == (pc = "idle") ~> (pc = "idle" /\ ret.kind = "None")

\* C5: once the iterator is exhausted, the grids yielded are exactly the valid
\* fillings of the input grid.
C5_ExactlyValidFillings ==
    (pc = "idle" /\ ret.kind = "None") => yielded = ValidFillings

\* C6 (as stated): in every grid yielded, the words spelled by two different
\* slots are different.
C6_DistinctWords ==
    Solving =>
        \A g \in yielded : SameShape(g) =>
            \A s1, s2 \in Range(slots(Rows)) :
                s1 # s2 => Spelled(g, SlotCells(s1)) # Spelled(g, SlotCells(s2))

\* C6 (amended): in every grid yielded, every slot is given one word of the
\* list of its length at the cells Slot::positions names, and nothing keeps two
\* slots from being given the same word.
C6_OneWordPerSlot ==
    Solving =>
        \A g \in yielded :
            /\ SameShape(g)
            /\ \A s \in Range(slots(Rows)) :
                  LET cells == positions(s)
                  IN /\ Len(cells) = slot_len(s)
                     /\ InWordList(Spelled(g, cells))

\* C6 witness: a yielded grid in which two different slots spell the same word.
C6_Witness ==
    /\ Solving
    /\ \E g \in yielded :
          \E s1, s2 \in Range(slots(Rows)) :
              /\ s1 # s2
              /\ Spelled(g, SlotCells(s1)) = Spelled(g, SlotCells(s2))
              /\ InWordList(Spelled(g, SlotCells(s1)))

\* One step of an adapter that keeps an exhausted flag (cadical, logicng).
C7_Step ==
    backend \in {"cadical", "logicng"} =>
        /\ (pc = "idle" /\ pc' = "decode" /\ solved' /\ solution'.kind = "None")
               => no_more_solution'
        /\ no_more_solution =>
               /\ no_more_solution'
               /\ database' = database
               /\ (pc = "idle" /\ pc' = "decode") => (~solved' /\ solution' = None)
               /\ (pc = "decode" /\ pc' = "idle") => (ret' = None /\ yielded' = yielded)

C8_NoFillingNoGrid ==
    (Solving /\ ValidFillings = {}) => (ret.kind # "Some" /\ solution.kind # "Some")

\* The rows of a string all have the length of the first one: the newlines sit
\* exactly at the multiples of that length plus one, and the last row is whole.
EqualRows(value) ==
    LET n == Len(value)
        newlines == {i \in 1..n : value[i] = NL}
        first == IF newlines = {} THEN n
                 ELSE (CHOOSE i \in newlines : \A j \in newlines : i <= j) - 1
    IN /\ \A i \in 1..n : (value[i] = NL) <=> (i % (first + 1) = 0)
       /\ (n + 1) % (first + 1) = 0

WellFormed(value) ==
    /\ EqualRows(value)
    /\ \A i \in 1..Len(value) : value[i] \in Range(LETTERS) \cup {EMPTY, BLOCK, NL}

OffendingRow(rows, i) ==
    \/ Len(rows[i]) # Len(rows[1])
    \/ \E k \in 1..Len(rows[i]) : InvalidChar(rows[i][k])

ExpectedError(value) ==
    LET rows == split(value)
        i == CHOOSE x \in 1..Len(rows) :
                 OffendingRow(rows, x) /\ \A y \in 1..(x - 1) : ~OffendingRow(rows, y)
        row == rows[i]
    IN IF Len(row) # Len(rows[1])
       THEN ErrInconsistent(i - 1, Len(row), Len(rows[1]))
       ELSE LET k == CHOOSE x \in 1..Len(row) :
                         InvalidChar(row[x]) /\ \A y \in 1..(x - 1) : ~InvalidChar(row[y])
            IN ErrInvalid(i - 1, row[k])

\* C10: the error of a malformed grid names the first offending row: its
\* length when it differs from row 0's, else its first forbidden character.
C10_FirstOffendingRow ==
    pc = "rejected" => crossword = ExpectedError(input_grid)

\* C10 witness: the rejected row is not the first one, has both a wrong length
\* and a forbidden character, and the length is what is reported.
C10_Witness ==
    /\ pc = "rejected"
    /\ crossword.kind = "Inconsistent number of columns"
    /\ crossword.row_index > 0
    /\ LET row == split(input_grid)[crossword.row_index + 1]
       IN \E k \in 1..Len(row) : row[k] \notin Range(LETTERS) \cup {EMPTY, BLOCK}
    /\ crossword.row_index > 0
    /\ \E k \in 1..Len(split(input_grid)[crossword.row_index + 1]) :
          InvalidChar(split(input_grid)[crossword.row_index + 1][k])

\* The domains of the two families of variables of the instance being solved.
CellDomain ==
    (0..(row_count(Rows) - 1)) \X (0..(column_count(Rows) - 1)) \X (0..(CELL_VALUE_COUNT - 1))

SlotDomain == (0..(slot_count(Rows) - 1)) \X (0..(Len(words) - 1))

CellId(t) == cell(Rows, t[1], t[2], t[3])

SlotId(t) == slot(Rows, Len(words), t[1], t[2])

\* C11: cell is a bijection from rows x columns x values onto
\* 1..R*C*CELL_VALUE_COUNT with the stated arithmetic, slot a bijection from
\* slots x words onto the next S*W ids, the two ranges are disjoint and
\* contiguous, every id is positive and count() is their total.
C11_VariableIds ==
    Solving =>
        LET cells == row_count(Rows) * column_count(Rows) * CELL_VALUE_COUNT
            slotvars == slot_count(Rows) * Len(words)
        IN /\ \A t \in CellDomain :
                 CellId(t) = t[1] * column_count(Rows) * CELL_VALUE_COUNT
                             + t[2] * CELL_VALUE_COUNT + t[3] + 1
           /\ \A t, u \in CellDomain : CellId(t) = CellId(u) => t = u
           /\ {CellId(t) : t \in CellDomain} = 1..cells
           /\ \A t \in SlotDomain : SlotId(t) = cells + t[1] * Len(words) + t[2] + 1
           /\ \A t, u \in SlotDomain : SlotId(t) = SlotId(u) => t = u
           /\ {SlotId(t) : t \in SlotDomain} = (cells + 1)..(cells + slotvars)
           /\ count(Rows, Len(words)) = cells + slotvars

\* C11 witness: an instance of two rows, two columns, several slots and two
\* words whose variables were handed to a solver.
C11_Witness ==
    /\ Solving
    /\ row_count(Rows) = 2 /\ column_count(Rows) = 2
    /\ slot_count(Rows) >= 2 /\ Len(words) = 2

\* A vector has exactly one positive cell variable in every cell of the grid.
OnePositivePerCell(model) ==
    /\ Len(model) >= representing_cell_count(Rows)
    /\ \A r \in 0..(row_count(Rows) - 1) : \A c \in 0..(column_count(Rows) - 1) :
          Cardinality({v \in 0..(CELL_VALUE_COUNT - 1) : model[cell(Rows, r, c, v)] > 0}) = 1

\* The positive value of a cell in such a vector.
PositiveValue(model, r, c) ==
    CHOOSE v \in 0..(CELL_VALUE_COUNT - 1) : model[cell(Rows, r, c, v)] > 0

\* R rows of C characters separated by newlines, no trailing newline, the
\* character of a cell being the letter of its value, or '#' for the block index.
ExpectedGrid(model) ==
    LET C == column_count(Rows)
    IN [i \in 1..(row_count(Rows) * (C + 1) - 1) |->
           IF i % (C + 1) = 0 THEN NL
           ELSE LET v == PositiveValue(model, (i - 1) \div (C + 1), (i - 1) % (C + 1))
                IN IF v = LetterCount THEN "#" ELSE LETTERS[v + 1]]

Decoded == pc \in {"idle", "src_idle"} /\ solution.kind = "Some"

\* C12: for every model with exactly one positive cell variable per cell,
\* back_to_domain (either source variant) returns R rows of C characters
\* separated by newlines, with the letter of the positive value in each cell
\* and '#' for the block index.
C12_DecodedGrid ==
    (Decoded /\ OnePositivePerCell(solution.value))
        => ret = Some(ExpectedGrid(solution.value))

\* C13: parsing a yielded grid succeeds and gives a grid of the input's row
\* and column counts that equals the input wherever it holds '#' or a letter
\* and holds a letter wherever it holds '.', hence a grid of the same slots.
C13_RoundTrip ==
    Solving =>
        \A g \in yielded :
            LET parsed == GridFrom(g)
            IN /\ parsed.ok
               /\ row_count(parsed.rows) = row_count(Rows)
               /\ column_count(parsed.rows) = column_count(Rows)
               /\ \A r \in 0..(row_count(Rows) - 1) : \A c \in 0..(column_count(Rows) - 1) :
                     LET before == grid_letter_at(Rows, r, c)
                         after == grid_letter_at(parsed.rows, r, c)
                     IN IF before = EMPTY THEN IsLetter(after) ELSE after = before
               /\ slots(parsed.rows) = slots(Rows)

\* C13 witness: a grid was yielded and parsed again for an input of several
\* slots that holds a block, a letter and an empty cell.
C13_Witness ==
    /\ Solving
    /\ yielded # {}
    /\ slot_count(Rows) >= 2
    /\ \E r1, r2, r3 \in 0..(row_count(Rows) - 1) :
          \E c1, c2, c3 \in 0..(column_count(Rows) - 1) :
              /\ grid_letter_at(Rows, r1, c1) = BLOCK
              /\ grid_letter_at(Rows, r2, c2) = EMPTY
              /\ IsLetter(grid_letter_at(Rows, r3, c3))

\* C14: in every model a solver produces for a crossword, every cell has
\* exactly one positive cell variable among its CELL_VALUE_COUNT ones.
C14_OneValuePerCell ==
    (Solving /\ solution.kind = "Some") => OnePositivePerCell(solution.value)

\* C14 witness: a solver has just produced a model for a grid of several cells.
C14_Witness ==
    /\ pc = "decode"
    /\ solution.kind = "Some"
    /\ row_count(Rows) * column_count(Rows) >= 4

\* The negations of a model's literals over the relevant (cell) variables.
RelevantNegation(model) ==
    {IF model[v] > 0 THEN 0 - v ELSE v : v \in 1..representing_cell_count(Rows)}

\* A pull that solves after a pull that returned a model.
C15_Step ==
    (pc = "idle" /\ pc' = "decode" /\ solved' /\ ret.kind = "Some")
        => database' = database \cup {RelevantNegation(solution.value)}

\* C15: with every adapter, the clause added before the solve that follows a
\* returned model is the disjunction of the negations of that model's literals
\* over the cell variables, one literal per cell variable and none of a slot
\* variable, and nothing else is added.
C15_RefutationClause == [][C15_Step]_vars

\* A literal is true in a vector of variable states.
TrueIn(literal, model) == model[Abs(literal)] * literal > 0

\* A clause refutes a model: the model makes every literal of it false.
Refutes(clause, model) == \A literal \in clause : model[Abs(literal)] * literal < 0

\* One step of a solver session.  The cadical adapter records the vector it
\* returns, the other two the literals of the model.
C16_Step ==
    LET pull == pc = "idle" /\ pc' = "decode"
    IN /\ (pull /\ ret.kind = "NotPulled") =>
              /\ database = clause_database(add_clauses_to(Rows, words))
              /\ solved'
              /\ database' = database
       /\ (pull /\ ret.kind = "Some") =>
              /\ solved'
              /\ \E clause \in database' :
                    /\ clause \notin database
                    /\ database' = database \cup {clause}
                    /\ Refutes(clause, solution.value)
                    /\ solution'.kind = "Some" =>
                           \E literal \in clause : TrueIn(literal, solution'.value)
       /\ (pull /\ solved' /\ solution'.kind = "Some") =>
              /\ last_solution'.values # <<>> \/ representing_cell_count(Rows) = 0
              /\ IF backend = "cadical"
                 THEN last_solution'.values = solution'.value
                 ELSE \A k \in 1..Len(last_solution'.values) :
                          TrueIn(last_solution'.values[k], solution'.value)

\* C16: the clauses of the three families are all there before the first
\* solve and the first pull adds none; every later pull that follows a
\* returned model adds exactly one clause, the refutation of that model, and
\* solves with it; after a successful solve the recorded last model is the one
\* returned.
C16_SessionOrder == [][C16_Step]_vars

\* The calls a configurator receives: everything but build().
ConfiguratorCalls == SelectSeq(calls, LAMBDA call : call.op # "build")

CellCount == row_count(Rows) * column_count(Rows)

\* The positions of the add_exactly_one calls among the positions first..last.
ExactlyOneIn(first, last) ==
    {p \in first..last : ConfiguratorCalls[p].op = "add_exactly_one"}

\* The part of the calls that holds the slot constraints, from position first
\* to position last: for slot 0, then slot 1, and so on, one add_and per word
\* in increasing word index, each on a variable of that slot, then the
\* add_exactly_one over the variables of these add_and, in the same order.
SlotCallsInOrder(first, last) ==
    LET cfg == ConfiguratorCalls
        closing == ExactlyOneIn(first, last)
    IN /\ \A p \in first..last : cfg[p].op \in {"add_and", "add_exactly_one"}
       /\ Cardinality(closing) = slot_count(Rows)
       /\ first <= last => last \in closing
       /\ \A p \in closing :
             LET slot_index == Cardinality({q \in closing : q < p})
                 previous == SetMax({q \in closing : q < p} \cup {first - 1})
             IN /\ Len(cfg[p].literals) = p - previous - 1
                /\ \A q \in (previous + 1)..(p - 1) :
                      /\ cfg[q].op = "add_and"
                      /\ cfg[q].literal = cfg[p].literals[q - previous]
                      /\ cfg[q].literal > CellCount * CELL_VALUE_COUNT
                      /\ (cfg[q].literal - CellCount * CELL_VALUE_COUNT - 1) \div Len(words)
                             = slot_index
                      /\ q > previous + 1 => cfg[q].literal > cfg[q - 1].literal

\* C17: the configurator receives allocate_variables(count()), then
\* set_relevant_variables(the cell variables), then the one-value-per-cell
\* constraints in row-major order, then the slot constraints in slot order and
\* word order, then the input-grid unit clauses in row-major order; the
\* families do not interleave.
C17_EmissionOrder ==
    Solving =>
        LET cfg == ConfiguratorCalls
            n == Len(cfg)
        IN /\ n >= 2 + 2 * CellCount
           /\ cfg[1] = [op |-> "allocate_variables",
                        variables_count |-> CellCount * CELL_VALUE_COUNT
                                            + slot_count(Rows) * Len(words)]
           /\ cfg[2] = [op |-> "set_relevant_variables",
                        relevant_variables |-> [k \in 1..(CellCount * CELL_VALUE_COUNT) |-> k]]
           /\ \A i \in 1..CellCount :
                 /\ cfg[2 + i].op = "add_exactly_one"
                 /\ cfg[2 + i].literals =
                        [v \in 1..CELL_VALUE_COUNT |-> (i - 1) * CELL_VALUE_COUNT + v]
           /\ SlotCallsInOrder(3 + CellCount, n - CellCount)
           /\ \A i \in 1..CellCount :
                 /\ cfg[n - CellCount + i].op = "add_clause"
                 /\ Len(cfg[n - CellCount + i].literals) = 1
                 /\ (Abs(cfg[n - CellCount + i].literals[1]) - 1) \div CELL_VALUE_COUNT = i - 1

\* C17 witness: a configurator has received the calls of a grid of two rows,
\* two columns and several slots with two different words.
C17_Witness ==
    /\ Solving
    /\ row_count(Rows) = 2 /\ column_count(Rows) = 2
    /\ slot_count(Rows) >= 2
    /\ Len(words) = 2 /\ words[1] # words[2]
    /\ Len(ConfiguratorCalls) > 2 + 2 * CellCount + slot_count(Rows)

\* C18: the builder path and the configurable-solver path send the same
\* configurator calls for the same grid and word list; the builder path calls
\* build() once, after the last clause, the other path never; whatever the
\* path, a pull yields the grid of the model its solver answered.
C18_SamePaths ==
    Solving =>
        /\ SelectSeq(solve_with_solver_built_by(Rows, words), LAMBDA call : call.op # "build")
               = solve_with(Rows, words)
        /\ ConfiguratorCalls = solve_with(Rows, words)
        /\ calls = IF is_builder(backend)
                   THEN ConfiguratorCalls \o <<[op |-> "build"]>>
                   ELSE ConfiguratorCalls
        /\ (pc = "idle" /\ ret.kind # "NotPulled") =>
               ret = IF solution.kind = "Some"
                     THEN Some(ExpectedGrid(solution.value))
                     ELSE None

\* C18 witness: a solver built by a builder has answered a model, and the grid
\* was yielded.
C18_Witness ==
    /\ pc = "idle"
    /\ is_builder(backend)
    /\ calls[Len(calls)].op = "build"
    /\ ret.kind = "Some"
    /\ CellCount >= 2

\* A cell of the parsed grid holds no block.
Open(row, column) == grid_letter_at(Rows, row, column) # BLOCK

\* The maximal runs of at least two cells without a block along the rows and
\* the columns of the parsed grid: axis, offset across the axis, start and end
\* along it.
MaximalRuns ==
    LET R == row_count(Rows)
        C == column_count(Rows)
        cell_of(is_down, offset, k) ==
            IF is_down THEN Open(k, offset) ELSE Open(offset, k)
        runs(is_down, width, length) ==
            {[is_down |-> is_down, offset |-> offset, start |-> start, end |-> end] :
                <<offset, start, end>> \in
                    {t \in (0..(width - 1)) \X (0..length) \X (0..length) :
                        /\ t[3] - t[2] >= 2
                        /\ \A k \in t[2]..(t[3] - 1) : cell_of(is_down, t[1], k)
                        /\ t[2] = 0 \/ ~cell_of(is_down, t[1], t[2] - 1)
                        /\ t[3] = length \/ ~cell_of(is_down, t[1], t[3])}}
    IN runs(FALSE, R, C) \cup runs(TRUE, C, R)

RunOf(s) == [is_down |-> s.is_down, offset |-> s.offset, start |-> s.start, end |-> s.end]

Constructed == pc \in {"constructed", "idle"}

\* C19: Grid::slots returns exactly the maximal runs of at least two cells
\* without a block along each row and each column, each of them once.
C19_MaximalRuns ==
    Constructed =>
        /\ {RunOf(s) : s \in Range(slots(Rows))} = MaximalRuns
        /\ slot_count(Rows) = Cardinality(MaximalRuns)

\* C19 witness: the slots were computed for a grid that holds a slot together
\* with a single-cell run, and two adjacent blocks.
C19_Witness ==
    /\ pc = "idle"
    /\ slot_count(Rows) >= 1
    /\ \E i \in 1..(Len(input_grid) - 1) : input_grid[i] = BLOCK /\ input_grid[i + 1] = BLOCK
    /\ \E i \in 2..Len(input_grid) : input_grid[i] # BLOCK /\ input_grid[i - 1] = BLOCK
                                      /\ (i = Len(input_grid) \/ input_grid[i + 1] = NL)

\* A slot comes before another in the order of the list: across before down,
\* then by row (by column for down slots), then by start.
ListedBefore(a, b) ==
    \/ ~a.is_down /\ b.is_down
    \/ /\ a.is_down = b.is_down
       /\ \/ a.offset < b.offset
          \/ a.offset = b.offset /\ a.start < b.start

\* C20: Grid::slots lists the across slots row by row, left to right, then the
\* down slots column by column, top to bottom; the slot at position k carries
\* index k, so the first down slot's index is the number of across slots; and
\* a later call of slots() sees the same list.
C20_SlotOrder ==
    Constructed =>
        LET list == slots(Rows)
            n == Len(list)
            acrosses == {k \in 1..n : ~list[k].is_down}
            downs == {k \in 1..n : list[k].is_down}
        IN /\ \A k \in 1..n : list[k].index = k - 1
           /\ \A i, j \in 1..n : i < j => ListedBefore(list[i], list[j])
           /\ \A k \in downs :
                 (\A j \in downs : k <= j) => list[k].index = Cardinality(acrosses)
           /\ slot_count(Rows) = n
           /\ pc = "idle" =>
                 Cardinality({k \in 1..Len(calls) :
                                 /\ calls[k].op = "add_exactly_one"
                                 /\ calls[k].literals = <<>>}) = n

\* C20 witness: the slots of a grid with several across slots and several
\* down slots were listed and handed to the constraints.
C20_Witness ==
    /\ pc = "idle"
    /\ Cardinality({s \in Range(slots(Rows)) : ~s.is_down}) >= 2
    /\ Cardinality({s \in Range(slots(Rows)) : s.is_down}) >= 2

\* C21: for every slot, positions() returns len() = end - start cells, the
\* i-th being the cell at offset start + i along the slot's axis and at the
\* slot's fixed coordinate on the other axis, whether start is 0 or not.
C21_PositionsFromStart ==
    Solving =>
        \A s \in Range(slots(Rows)) :
            /\ Len(positions(s)) = s.end - s.start
            /\ \A i \in 0..(slot_len(s) - 1) :
                  positions(s)[i + 1] =
                      IF s.is_down THEN [column |-> s.offset, row |-> s.start + i]
                      ELSE [column |-> s.start + i, row |-> s.offset]

\* Every cell of the parsed grid holds the given character.
MadeOnlyOf(ch) ==
    \A r \in 0..(row_count(Rows) - 1) : \A c \in 0..(column_count(Rows) - 1) :
        grid_letter_at(Rows, r, c) = ch

\* C22: a grid of R rows and C columns made only of '.' has R across slots of
\* length C when C >= 2 and none otherwise, and C down slots of length R when
\* R >= 2 and none otherwise; a grid made only of '#' has no slot.
C22_UniformGrids ==
    Constructed =>
        LET R == row_count(Rows)
            C == column_count(Rows)
            acrosses == {k \in 1..slot_count(Rows) : ~slots(Rows)[k].is_down}
            downs == {k \in 1..slot_count(Rows) : slots(Rows)[k].is_down}
        IN /\ MadeOnlyOf(EMPTY) =>
                 /\ Cardinality(acrosses) = IF C >= 2 THEN R ELSE 0
                 /\ Cardinality(downs) = IF R >= 2 THEN C ELSE 0
                 /\ \A k \in acrosses : slot_len(slots(Rows)[k]) = C
                 /\ \A k \in downs : slot_len(slots(Rows)[k]) = R
           /\ MadeOnlyOf(BLOCK) => slot_count(Rows) = 0

\* C22 witness: the slots of the grid of two rows of three empty cells were
\* computed.
C22_Witness ==
    /\ pc = "idle"
    /\ MadeOnlyOf(EMPTY)
    /\ row_count(Rows) = 2 /\ column_count(Rows) = 3

(***************************************************************************)
(* Clause emission on word lists that hold an unsupported character:       *)
(* construction, then the emission of the three clause families.           *)
(***************************************************************************)
UNSUPPORTED == "_"

EmissionVocabulary ==
    { <<"A", "A">>, <<"A", "B">>, <<"A", UNSUPPORTED>>,
      <<"A", "B", "A">>, <<"A", UNSUPPORTED, "A">> }

EmissionWordLists == SeqsUpTo(EmissionVocabulary, MaxWords)

EmissionGrids == GridInputs \cup { <<".", ".", ".", NL, ".", ".", ".">> }

InitEmission == InitWith(EmissionGrids, EmissionWordLists, {"cadical"})

NextEmission == TryFrom \/ SolveWith

SpecEmission == InitEmission /\ [][NextEmission]_vars

\* A word holds a character that alphabet::index_of does not know.
HasUnsupportedCharacter(word) ==
    \E i \in 1..Len(word) : ~contains(word[i])

\* The emission of the clauses was attempted: it completed or it panicked.
Emitted == pc \in {"idle", "panicked"}

\* C23: whenever the word list holds a word with a character outside the
\* alphabet, the emission of the clauses panics, whatever the length of the
\* word.
C23_UnsupportedCharacterPanics ==
    (Emitted /\ \E k \in 1..Len(words) : HasUnsupportedCharacter(words[k]))
        => pc = "panicked"

(***************************************************************************)
(* The default functions of SolverConfigurator, called on their own as in  *)
(* the tests of croissant-solver: one call on a configurator that records  *)
(* the clauses it receives.                                                *)
(***************************************************************************)
MaxVariable == 3
MaxLiterals == 3

Literals == {l \in (0 - MaxVariable)..MaxVariable : l # 0}

LiteralLists == SeqsUpTo(Literals, MaxLiterals)

ConfiguratorCallInputs ==
    {CallAtMostOne(literals) : literals \in LiteralLists}
        \cup {CallExactlyOne(literals) : literals \in LiteralLists}
        \cup {CallAnd(literal, conjunction) :
                  literal \in Literals, conjunction \in LiteralLists}

InitConfigurator ==
    /\ input_grid = <<>>
    /\ words = <<>>
    /\ backend = "cadical"
    /\ pc = "configure"
    /\ crossword = NoCrossword
    /\ calls = <<>>
    /\ clauses = <<>>
    /\ relevant_variables = <<>>
    /\ database = {}
    /\ satisfying = {}
    /\ last_solution = [present |-> FALSE, values |-> <<>>]
    /\ no_more_solution = FALSE
    /\ solution = NoResult
    /\ ret = NoResult
    /\ yielded = {}
    /\ repeated = FALSE
    /\ solved = FALSE

\* One call of add_at_most_one, add_exactly_one or add_and on the configurator.
Configure ==
    /\ pc = "configure"
    /\ pc' = "configured"
    /\ \E call \in ConfiguratorCallInputs : calls' = <<call>>
    /\ clauses' = added_clauses(calls')
    /\ database' = clause_database(calls')
    /\ satisfying' = Models(database', 1, MaxVariable)
    /\ UNCHANGED <<input_grid, words, backend, crossword, relevant_variables,
                   last_solution, no_more_solution, solution, ret, yielded,
                   repeated, solved>>

NextConfigurator == Configure

SpecConfigurator == InitConfigurator /\ [][NextConfigurator]_vars

\* The assignments of the variables, each as its set of true variables.
Assignments == SUBSET (1..MaxVariable)

\* The assignment satisfies every clause of the sequence.
SatisfiesAll(m, cls) == \A k \in 1..Len(cls) : Satisfies(m, Range(cls[k]))

\* The number of positions of the list whose literal the assignment makes true.
TrueCount(m, literals) ==
    Cardinality({i \in 1..Len(literals) : Satisfies(m, {literals[i]})})

\* The rank of the pair (i, j), i < j, among the pairs of 1..n in
\* lexicographic order.
PairRank(i, j, n) == (i - 1) * n - ((i * (i - 1)) \div 2) + (j - i)

\* The sequence holds exactly the clauses [-L[i], -L[j]], i < j, in
\* lexicographic order of (i, j).
PairwiseExclusions(cls, literals) ==
    LET n == Len(literals)
    IN /\ Len(cls) = (n * (n - 1)) \div 2
       /\ \A i \in 1..n : \A j \in (i + 1)..n :
             cls[PairRank(i, j, n)] = <<0 - literals[i], 0 - literals[j]>>

Configured(op) == pc = "configured" /\ calls[1].op = op

\* C24: add_at_most_one over L literals adds the L*(L-1)/2 clauses
\* [-L[i], -L[j]], i < j, in lexicographic order and nothing else;
\* add_exactly_one adds the clause L first and then those; an assignment
\* satisfies the added clauses iff it makes at most one, respectively exactly
\* one, of the literals true.
C24_AtMostOneExactlyOne ==
    /\ Configured("add_at_most_one") =>
          /\ PairwiseExclusions(clauses, calls[1].literals)
          /\ \A m \in Assignments :
                SatisfiesAll(m, clauses) <=> TrueCount(m, calls[1].literals) <= 1
    /\ Configured("add_exactly_one") =>
          /\ Len(clauses) >= 1
          /\ clauses[1] = calls[1].literals
          /\ PairwiseExclusions(Tail(clauses), calls[1].literals)
          /\ \A m \in Assignments :
                SatisfiesAll(m, clauses) <=> TrueCount(m, calls[1].literals) = 1

\* C24 witness: add_exactly_one was called on three literals of three
\* variables.
C24_Witness ==
    /\ Configured("add_exactly_one")
    /\ calls[1].literals = <<1, 2, 3>>
    /\ clauses = << <<1, 2, 3>>, <<-1, -2>>, <<-1, -3>>, <<-2, -3>> >>

\* C25: add_and(lit, conj) adds one clause [-lit, c] per literal c of conj, in
\* order, then the clause of the negated literals of conj followed by lit; an
\* assignment satisfies the added clauses iff it makes lit true exactly when
\* it makes every literal of conj true; for the empty conjunction the only
\* clause is [lit].
C25_AndEquivalence ==
    Configured("add_and") =>
        LET literal == calls[1].literal
            conjunction == calls[1].literals
            n == Len(conjunction)
        IN /\ Len(clauses) = n + 1
           /\ \A k \in 1..n : clauses[k] = <<0 - literal, conjunction[k]>>
           /\ Len(clauses[n + 1]) = n + 1
           /\ \A k \in 1..n : clauses[n + 1][k] = 0 - conjunction[k]
           /\ clauses[n + 1][n + 1] = literal
           /\ n = 0 => clauses = << <<literal>> >>
           /\ \A m \in Assignments :
                 SatisfiesAll(m, clauses) <=>
                     (Satisfies(m, {literal}) <=>
                          \A k \in 1..n : Satisfies(m, {conjunction[k]}))

\* C25 witness: add_and was called with a literal and a conjunction of two
\* literals of other variables.
C25_Witness ==
    /\ Configured("add_and")
    /\ calls[1].literal = 3
    /\ calls[1].literals = <<-1, 2>>
    /\ clauses = << <<-3, -1>>, <<-3, 2>>, <<1, -2, 3>> >>

\* The words (0-based indices, in order) whose length is the slot's.
MatchingWords(s) ==
    SelectSeq([k \in 1..Len(words) |-> k - 1],
              LAMBDA w : Len(words[w + 1]) = slot_len(s))

\* The calls the slot constraints are made of for one slot: per word of the
\* slot's length an and-equivalence between the slot variable and the cell
\* variables of the word's letters in the cells of the slot, then the
\* exactly-one over these slot variables.
ExpectedSlotCalls(s) ==
    LET matching == MatchingWords(s)
        slot_variables ==
            [k \in 1..Len(matching) |->
                CellCount * CELL_VALUE_COUNT + s.index * Len(words) + matching[k] + 1]
        cell_variable(i, letter) ==
            (SlotCells(s)[i].row * column_count(Rows) + SlotCells(s)[i].column)
                * CELL_VALUE_COUNT + index_of(letter) + 1
    IN [k \in 1..Len(matching) |->
           [op |-> "add_and",
            literal |-> slot_variables[k],
            literals |-> [i \in 1..slot_len(s) |->
                             cell_variable(i, words[matching[k] + 1][i])]]]
       \o << [op |-> "add_exactly_one", literal |-> 0, literals |-> slot_variables] >>

\* The calls between those of the cell constraints and those of the input
\* grid constraints.
SlotConstraintCalls ==
    SubSeq(ConfiguratorCalls, 3 + CellCount, Len(ConfiguratorCalls) - CellCount)

\* C26: the slot constraints are, for each slot in index order, one add_and
\* per word of the slot's length in word order, between the slot variable and
\* the cell variables of the word's letters at the slot's cells, then one
\* add_exactly_one over these slot variables; the other words add nothing and
\* no plain clause is added.
C26_SlotConstraintCalls ==
    Solving =>
        SlotConstraintCalls =
            Flatten([k \in 1..slot_count(Rows) |-> ExpectedSlotCalls(slots(Rows)[k])])

\* The grid of the clause emission tests: two rows of three empty cells.
AuditGrid == <<".", ".", ".", NL, ".", ".", ".">>

\* The clauses of the audit grid with an empty word list were emitted.
Audited == pc = "idle" /\ input_grid = AuditGrid /\ words = <<>>

\* The cell constraints of the audit grid: one add_exactly_one per cell in
\* row-major order, over the CELL_VALUE_COUNT consecutive ids of the cell.
AuditCellConstraints ==
    \A i \in 1..6 :
        ConfiguratorCalls[2 + i] =
            [op |-> "add_exactly_one", literal |-> 0,
             literals |-> [v \in 1..CELL_VALUE_COUNT |-> (i - 1) * CELL_VALUE_COUNT + v]]

\* C27, as stated: on the audit grid with an empty word list the cell
\* constraints are 6 add_exactly_one, one per cell in row-major order over the
\* consecutive ids of the cell, and the slot constraints and the input grid
\* constraints add nothing.
C27_OnlyCellConstraints ==
    Audited =>
        /\ Len(ConfiguratorCalls) = 2 + 6
        /\ AuditCellConstraints

\* C27, amended: the cell constraints are as stated; the slot constraints are
\* one add_exactly_one over no literal for each of the 5 slots; the input grid
\* constraints are one unit clause per cell, the negated block variable of
\* the cell.
C27_Audit ==
    Audited =>
        /\ Len(ConfiguratorCalls) = 2 + 6 + 5 + 6
        /\ AuditCellConstraints
        /\ \A i \in 1..5 :
              ConfiguratorCalls[8 + i] =
                  [op |-> "add_exactly_one", literal |-> 0, literals |-> <<>>]
        /\ \A i \in 1..6 :
              ConfiguratorCalls[13 + i] =
                  [op |-> "add_clause", literal |-> 0,
                   literals |-> <<0 - (i * CELL_VALUE_COUNT)>>]

\* C27 witness: the clauses of the audit grid were emitted, 19 calls in all.
C27_Witness == Audited /\ Len(calls) = 19

\* The calls of the input grid constraints: the last ones, one per cell.
InputGridCalls ==
    SubSeq(ConfiguratorCalls, Len(ConfiguratorCalls) - CellCount + 1,
           Len(ConfiguratorCalls))

\* The literal the input grid asks for at a cell: the block variable of the
\* cell, negated for '.', plain for '#', and the variable of the letter for a
\* letter.
ExpectedInputLiteral(row, column) ==
    LET first == (row * column_count(Rows) + column) * CELL_VALUE_COUNT
        ch == CharAt(input_grid, row, column)
    IN IF ch = EMPTY THEN 0 - (first + CELL_VALUE_COUNT)
       ELSE IF ch = BLOCK THEN first + CELL_VALUE_COUNT
       ELSE first + index_of(ch) + 1

\* C28: the input grid constraints are exactly one unit clause per cell, in
\* row-major order: the negated block variable for '.', the block variable for
\* '#', the variable of the letter for a letter; no add_exactly_one, no
\* add_and, and a single literal in each clause.
C28_InputGridCalls ==
    Solving =>
        /\ Len(InputGridCalls) = CellCount
        /\ \A row \in 0..(row_count(Rows) - 1) :
              \A column \in 0..(column_count(Rows) - 1) :
                 InputGridCalls[row * column_count(Rows) + column + 1] =
                     [op |-> "add_clause", literal |-> 0,
                      literals |-> <<ExpectedInputLiteral(row, column)>>]

\* C28 witness: the clauses of a grid with an empty cell, a block and a letter
\* were emitted.
C28_Witness ==
    /\ pc = "idle"
    /\ input_grid = <<"#", NL, ".", NL, "B">>
    /\ InputGridCalls = << CallClause(<<3>>), CallClause(<<-6>>), CallClause(<<8>>) >>

(***************************************************************************)
(* The cadical adapter used on its own: a client sets the relevant         *)
(* variables, adds clauses and pulls models.  cadical::Solver::value is an *)
(* Option: for a variable the engine has not met in any clause it is       *)
(* either None, which model() turns into 0, or Some(false).                *)
(***************************************************************************)
AdapterClauses == { <<1>>, <<-1>>, <<1, 2>>, <<-1, -2>>, <<1, -2>> }

AdapterCallInputs ==
    {<<CallSetRelevantVariables([k \in 1..n |-> k])>>
         \o [k \in 1..Len(added) |-> CallClause(added[k])] :
             n \in 0..MaxVariable, added \in SeqsUpTo(AdapterClauses, MaxWords)}

InitCadical ==
    /\ input_grid = <<>>
    /\ words = <<>>
    /\ backend = "cadical"
    /\ pc = "adapter"
    /\ crossword = NoCrossword
    /\ calls \in AdapterCallInputs
    /\ clauses = added_clauses(calls)
    /\ relevant_variables = calls[1].relevant_variables
    /\ database = clause_database(calls)
    /\ satisfying = Models(database, 1, engine_vars(backend, database, relevant_variables))
    /\ last_solution = [present |-> FALSE, values |-> <<>>]
    /\ no_more_solution = FALSE
    /\ solution = NoResult
    /\ ret = NoResult
    /\ yielded = {}
    /\ repeated = FALSE
    /\ solved = FALSE

\* CadicalSolver::model: 1 or -1 for a variable the engine has met, the given
\* state for the others.
model(m, known, relevant, unknown_state) ==
    [variable \in 1..max_relevant_variable(relevant) |->
        IF variable > known THEN unknown_state
        ELSE IF variable \in m THEN 1 ELSE 0 - 1]

\* CadicalSolver::next.
CadicalNext ==
    /\ pc = "adapter"
    /\ IF no_more_solution
       THEN /\ solution' = None
            /\ solved' = FALSE
            /\ UNCHANGED <<database, satisfying, last_solution, no_more_solution>>
       ELSE LET added == cadical_refutation(last_solution)
                refuted == database \cup added
                known == NumVars(refuted)
                found == {m \in satisfying : \A clause \in added : Satisfies(m, clause)}
            IN /\ database' = refuted
               /\ satisfying' = found
               /\ solved' = TRUE
               /\ \/ /\ found = {}
                     /\ no_more_solution' = TRUE
                     /\ last_solution' = last_solution
                     /\ solution' = None
                  \/ \E m \in found : \E unknown_state \in {0, 0 - 1} :
                        /\ \A variable \in m : variable <= known
                        /\ no_more_solution' = FALSE
                        /\ last_solution' =
                               [present |-> FALSE,
                                values |-> model(m, known, relevant_variables, unknown_state)]
                        /\ solution' = Some(last_solution'.values)
    /\ UNCHANGED <<input_grid, words, backend, pc, crossword, calls, clauses,
                   relevant_variables, ret, yielded, repeated>>

NextCadical == CadicalNext

SpecCadical == InitCadical /\ [][NextCadical]_vars

\* The number of variables of the session: count() for a crossword, the
\* largest variable the client named for the adapter on its own.
VariableCount ==
    IF pc = "adapter"
    THEN SetMax({max_relevant_variable(relevant_variables),
                 SetMax({Abs(l) : l \in UNION {Range(cl) : cl \in Range(clauses)}})})
    ELSE count(Rows, Len(words))

DuplicateWordLists ==
    {<<w, w>> : w \in Vocabulary}
        \cup {<<w, w, x>> : w \in Vocabulary, x \in Vocabulary}
        \cup {<<w, x, w>> : w \in Vocabulary, x \in Vocabulary}

InitDuplicates == InitWith(GridInputs, DuplicateWordLists, Backends) /\ Admissible

NextDuplicates == TryFrom \/ SolveWith \/ SolverNext \/ Decode

SpecDuplicates == InitDuplicates /\ [][NextDuplicates]_vars

\* The word occurs at two indices of the word list.
Duplicated(w) ==
    \E i \in 1..Len(words) : \E j \in (i + 1)..Len(words) :
        words[i] = w /\ words[j] = w

\* C30: no grid yielded has a slot spelling a word that occurs at two indices
\* of the word list.
C30_DuplicatedWordUnused ==
    Solving =>
        \A g \in yielded : \A s \in Range(slots(Rows)) :
            ~Duplicated(Spelled(g, SlotCells(s)))

====
